---- MODULE Spec2Model ----
(***************************************************************************)
(* Exact substring search: the Aho-Corasick multi-pattern automaton of     *)
(* src/src/aho_corasick.rs and the prefix-function (KMP) matcher of        *)
(* src/src/kmp.rs.                                                         *)
(*                                                                         *)
(* Conventions.                                                            *)
(*  - A symbol (Rust char) is its code point; a string is a sequence of    *)
(*    code points.  str::len() is the UTF-8 byte count (StrLen), while     *)
(*    .chars().enumerate() counts code points.                             *)
(*  - Rust vectors are 0-based, TLA+ sequences 1-based: the Rust read      *)
(*    v[i] is written v[i + 1] here.  State ids, keyword indices and text  *)
(*    offsets keep their 0-based Rust values.                              *)
(*  - usize arithmetic: with overflow checks (debug profile) an underflow  *)
(*    panics; without (release profile) it wraps modulo 2^64.  A wrapped   *)
(*    value is represented by its signed residue (-1 stands for 2^64 - 1). *)
(*  - HashMap/HashSet iteration order is unspecified: where the order      *)
(*    shows in a result (the order of the outputs of one state) every      *)
(*    order is a possible behaviour.                                       *)
(***************************************************************************)
EXTENDS Integers, Sequences, FiniteSets, Bags, TLC

\* ------------------------------------------------------------------ bounds

MaxKeywords == 3

MaxKwLen == 3

MaxTextLen == 3

MaxPatLen == 3

MaxKmpTextLen == 4

\* 'a' and 'b': one UTF-8 byte each.
Alphabet == {97, 98}

\* 'a' and U+00E9, which takes two UTF-8 bytes.
Utf8Alphabet == {97, 233}

\* The symbols of the KMP matcher (generic over C: Eq).
KmpAlphabet == {97, 98}

\* The patterns whose prefix table is computed on its own: up to seven symbols
\* of 'a', 'b', 'c'.
MaxPfxLen == 7

PfxAlphabet == {97, 98, 99}

SeqsUpTo(S, n) == UNION {[1..k -> S] : k \in 0..n}

\* --------------------------------------------------------------- std types

\* Option<Vec<usize>>
NoneVec == [some |-> FALSE, val |-> <<>>]

SomeVec(v) == [some |-> TRUE, val |-> v]

\* Option<hash_set::Iter<usize>>: the elements the iterator has not yielded yet.
NoneIter == [some |-> FALSE, val |-> {}]

SomeIter(s) == [some |-> TRUE, val |-> s]

\* HashMap::new()
EmptyMap == <<>>

\* char::len_utf8
len_utf8(c) == IF c < 128 THEN 1 ELSE IF c < 2048 THEN 2 ELSE IF c < 65536 THEN 3 ELSE 4

\* str::len: the number of UTF-8 bytes of s.
RECURSIVE StrLen(_)
StrLen(s) == IF s = <<>> THEN 0 ELSE len_utf8(Head(s)) + StrLen(Tail(s))

\* The ascending enumeration of a finite set of integers.
RECURSIVE SortedSeq(_)
SortedSeq(S) ==
    IF S = {} THEN <<>>
    ELSE LET m == CHOOSE x \in S : \A y \in S : x <= y
         IN <<m>> \o SortedSeq(S \ {m})

\* Every enumeration of a finite set: the orders a HashSet iteration can take.
RECURSIVE Orders(_)
Orders(S) ==
    IF S = {} THEN {<<>>}
    ELSE UNION {{<<x>> \o r : r \in Orders(S \ {x})} : x \in S}

\* The elements of a sequence.
Range(q) == {q[j] : j \in DOMAIN q}

\* The multiset of the elements of a sequence.
RECURSIVE BagOf(_)
BagOf(s) == IF s = <<>> THEN EmptyBag ELSE BagOf(Tail(s)) (+) SetToBag({Head(s)})

\* ------------------------------------------------------------ AhoCorasick

\* AhoCorasick::new
AhoCorasickNew ==
    [keywords |-> <<>>, states |-> <<EmptyMap>>, fails |-> NoneVec, outputs |-> <<{}>>]

\* add_chars that treats every entry as vacant: an occupied entry is overwritten
\* with a new state.
RECURSIVE add_chars_always_new(_, _, _, _, _)
add_chars_always_new(states, outputs, state, s, i) ==
    IF i > Len(s) THEN [states |-> states, outputs |-> outputs, state |-> state]
    ELSE LET c == s[i]
             n_states == Len(states)
         IN add_chars_always_new(
                Append([states EXCEPT ![state + 1] =
                            [x \in DOMAIN @ \cup {c} |-> IF x = c THEN n_states ELSE @[x]]],
                       EmptyMap),
                Append(outputs, {}), n_states, s, i + 1)

\* The loop of add_keyword over s.chars(): follows an occupied entry, fills a
\* vacant one with a new state whose id is the number of states so far.
RECURSIVE add_chars(_, _, _, _, _)
add_chars(states, outputs, state, s, i) ==
    IF i > Len(s) THEN [states |-> states, outputs |-> outputs, state |-> state]
    ELSE LET c == s[i]
             n_states == Len(states)
         IN IF c \in DOMAIN states[state + 1]
            THEN add_chars(states, outputs, states[state + 1][c], s, i + 1)
            ELSE add_chars(Append([states EXCEPT ![state + 1] = (c :> n_states) @@ @],
                                  EmptyMap),
                           Append(outputs, {}), n_states, s, i + 1)

\* add_keyword without its last statement: the failure links are left as they
\* are.
add_keyword_keep_fails(ac, s) ==
    LET keywords == Append(ac.keywords, s)
        w == add_chars(ac.states, ac.outputs, 0, s, 1)
    IN [keywords |-> keywords,
        states |-> w.states,
        fails |-> ac.fails,
        outputs |-> [w.outputs EXCEPT ![w.state + 1] = @ \cup {Len(keywords) - 1}]]

\* AhoCorasick::add_keyword
add_keyword(ac, s) ==
    LET keywords == Append(ac.keywords, s)
        w == add_chars(ac.states, ac.outputs, 0, s, 1)
    IN [keywords |-> keywords,
        states |-> w.states,
        fails |-> NoneVec,
        outputs |-> [w.outputs EXCEPT ![w.state + 1] = @ \cup {Len(keywords) - 1}]]

\* fail_chase that stops at the fail state of the parent without following its
\* failure links.
fail_chase_none(states, fails, fail_state, ch) == fail_state

\* The failure chase of make_fails: while fail_state != 0 and it has no edge on ch.
RECURSIVE fail_chase(_, _, _, _)
fail_chase(states, fails, fail_state, ch) ==
    IF fail_state # 0 /\ ch \notin DOMAIN states[fail_state + 1]
    THEN fail_chase(states, fails, fails[fail_state], ch)
    ELSE fail_state

\* get(ch).cloned().unwrap_or(0)
goto_or_root(map, ch) == IF ch \in DOMAIN map THEN map[ch] ELSE 0

\* visit_edges with the two sides of the merge swapped: the outputs of next are
\* inserted into the outputs of its fail state.
RECURSIVE visit_edges_swapped(_, _, _, _)
visit_edges_swapped(states, work, chs, b) ==
    IF chs = <<>> THEN b
    ELSE LET ch == Head(chs)
             next == states[work + 1][ch]
             fail_state == fail_chase(states, b.fails, b.fails[work], ch)
             f == goto_or_root(states[fail_state + 1], ch)
             fails == [b.fails EXCEPT ![next] = f]
             outputs == [b.outputs EXCEPT ![f + 1] = @ \cup b.outputs[next + 1]]
         IN visit_edges_swapped(states, work, Tail(chs),
                                [fails |-> fails, outputs |-> outputs,
                                 work_list |-> Append(b.work_list, next),
                                 ok |-> b.ok /\ next # f])

\* visit_edges that starts the chase at the dequeued state itself instead of at
\* its fail state.
RECURSIVE visit_edges_from_self(_, _, _, _)
visit_edges_from_self(states, work, chs, b) ==
    IF chs = <<>> THEN b
    ELSE LET ch == Head(chs)
             next == states[work + 1][ch]
             fail_state == fail_chase(states, b.fails, work, ch)
             f == goto_or_root(states[fail_state + 1], ch)
             fails == [b.fails EXCEPT ![next] = f]
             outputs == [b.outputs EXCEPT ![next + 1] = @ \cup b.outputs[f + 1]]
         IN visit_edges_from_self(states, work, Tail(chs),
                                  [fails |-> fails, outputs |-> outputs,
                                   work_list |-> Append(b.work_list, next),
                                   ok |-> b.ok /\ next # f])

\* The body of `for (ch, next) in work_state` of make_fails, over the edges chs
\* of state work that are still to visit; b = [fails, outputs, work_list, ok],
\* ok being that no assertion has failed (here assert!(*next != fails[*next - 1])).
RECURSIVE visit_edges(_, _, _, _)
visit_edges(states, work, chs, b) ==
    IF chs = <<>> THEN b
    ELSE LET ch == Head(chs)
             next == states[work + 1][ch]
             fail_state == fail_chase(states, b.fails, b.fails[work], ch)
             f == goto_or_root(states[fail_state + 1], ch)
             fails == [b.fails EXCEPT ![next] = f]
             outputs == [b.outputs EXCEPT ![next + 1] = @ \cup b.outputs[f + 1]]
         IN visit_edges(states, work, Tail(chs),
                        [fails |-> fails, outputs |-> outputs,
                         work_list |-> Append(b.work_list, next),
                         ok |-> b.ok /\ next # f])

\* The `while !work_list.is_empty()` loop of make_fails, with its
\* assert!(work != 0).
RECURSIVE bfs_loop(_, _)
bfs_loop(states, b) ==
    IF b.work_list = <<>> THEN b
    ELSE LET work == Head(b.work_list)
         IN bfs_loop(states,
                     visit_edges(states, work, SortedSeq(DOMAIN states[work + 1]),
                                 [b EXCEPT !.work_list = Tail(b.work_list),
                                           !.ok = @ /\ work # 0]))

\* The run of make_fails past its early return: the failure vector of length
\* states.len() - 1, the children of state 0 given fail 0 and queued (with
\* assert!(*next != 0)), then the breadth-first loop.  (The edges of state 0 are
\* visited in ascending order of their targets, those of another state in
\* ascending symbol order; the links and outputs computed do not depend on the
\* order.)
build_run(ac) ==
    LET n == Len(ac.states)
        roots == SortedSeq({ac.states[1][c] : c \in DOMAIN ac.states[1]})
    IN bfs_loop(ac.states,
                [fails |-> [i \in 1..(n - 1) |-> 0],
                 outputs |-> ac.outputs,
                 work_list |-> roots,
                 ok |-> 0 \notin Range(roots)])

\* The automaton a completed run leaves: self.fails = Some(fails).
build_fails(ac) ==
    LET b == build_run(ac)
    IN [ac EXCEPT !.fails = SomeVec(b.fails), !.outputs = b.outputs]

\* Whether make_fails panics on one of its assertions.
make_fails_panics(ac) == ~ac.fails.some /\ ~build_run(ac).ok

\* make_fails with the merge of the fail state's outputs left out.
make_fails_no_inherit(ac) ==
    IF ac.fails.some THEN ac ELSE [build_fails(ac) EXCEPT !.outputs = ac.outputs]

\* AhoCorasick::make_fails
make_fails(ac) == IF ac.fails.some THEN ac ELSE build_fails(ac)

\* A panic (an index out of bounds, an unwrap of None, an arithmetic overflow
\* under overflow checks) in place of a state id.
Panic == -1

\* The transition of match_ on one symbol: the `while` over the failure links
\* (fails[state - 1], on the unwrapped table), then the goto edge or state 0.
RECURSIVE match_chase(_, _, _)
match_chase(ac, state, ch) ==
    IF state + 1 \notin DOMAIN ac.states THEN Panic
    ELSE IF state # 0 /\ ch \notin DOMAIN ac.states[state + 1]
    THEN IF ~ac.fails.some \/ state \notin DOMAIN ac.fails.val THEN Panic
         ELSE match_chase(ac, ac.fails.val[state], ch)
    ELSE state

match_step(ac, state, ch) ==
    LET s == match_chase(ac, state, ch)
    IN IF s = Panic THEN Panic ELSE goto_or_root(ac.states[s + 1], ch)

\* ch_idx - (kw.len() - 1): both subtractions are usize subtractions.
start_offset(kw, ch_idx, checks) ==
    LET a == StrLen(kw) - 1
        b == ch_idx - a
    IN IF checks /\ (a < 0 \/ b < 0) THEN [panic |-> TRUE, val |-> 0]
       ELSE [panic |-> FALSE, val |-> b]

\* The pushes of `for output in &self.outputs[state]`, in the order ord.
RECURSIVE push_outputs(_, _, _, _)
push_outputs(ac, ord, ch_idx, checks) ==
    IF ord = <<>> THEN <<>>
    ELSE LET kw == ac.keywords[Head(ord) + 1]
         IN <<<<start_offset(kw, ch_idx, checks).val, kw>>>>
            \o push_outputs(ac, Tail(ord), ch_idx, checks)

PanicOutcome == [panic |-> TRUE, ret |-> <<>>]

\* Whether reporting the outputs outs at ch_idx panics.
report_panics(ac, outs, ch_idx, checks) ==
    \E o \in outs : \/ o + 1 \notin DOMAIN ac.keywords
                    \/ start_offset(ac.keywords[o + 1], ch_idx, checks).panic

\* The `for (ch_idx, ch) in text.chars().enumerate()` loop of match_ from symbol
\* ch_idx on: every outcome [panic, ret] it can have.
RECURSIVE scan(_, _, _, _, _)
scan(ac, text, ch_idx, state, checks) ==
    IF ch_idx >= Len(text) THEN {[panic |-> FALSE, ret |-> <<>>]}
    ELSE LET s == match_step(ac, state, text[ch_idx + 1])
         IN IF s = Panic \/ s + 1 \notin DOMAIN ac.outputs THEN {PanicOutcome}
            ELSE IF report_panics(ac, ac.outputs[s + 1], ch_idx, checks)
            THEN {PanicOutcome}
            ELSE LET rest == scan(ac, text, ch_idx + 1, s, checks)
                 IN {IF t.panic THEN PanicOutcome
                     ELSE [panic |-> FALSE,
                           ret |-> push_outputs(ac, ord, ch_idx, checks) \o t.ret] :
                        ord \in Orders(ac.outputs[s + 1]), t \in rest}

\* AhoCorasick::match_ on an automaton whose make_fails has run: the outcomes
\* (a returned list, or a panic) it can have.
match_(ac, text, checks) ==
    IF ~ac.fails.some THEN {PanicOutcome} ELSE scan(ac, text, 0, 0, checks)

\* ------------------------------------------------------------- MatchIter

\* Option<(usize, &str)>, or a panic.
NoneRet == [kind |-> "None", val |-> <<>>]

SomeRet(v) == [kind |-> "Some", val |-> v]

PanicRet == [kind |-> "Panic", val |-> <<>>]

\* The iterator before match_iter has made one.
NoIter ==
    [alive |-> FALSE, text |-> <<>>, state |-> 0, loc |-> 0, chars |-> 0,
     output_iter |-> NoneIter]

\* AhoCorasick::match_iter past its make_fails.  chars is the count of symbols
\* the Enumerate<Chars> over text has yielded.
match_iter(str) ==
    [alive |-> TRUE, text |-> str, state |-> 0, loc |-> 0, chars |-> 0,
     output_iter |-> NoneIter]

\* The transition of MatchIter::next on one symbol.
RECURSIVE iter_chase(_, _, _)
iter_chase(ac, state, ch) ==
    IF state + 1 \notin DOMAIN ac.states THEN Panic
    ELSE IF state # 0 /\ ch \notin DOMAIN ac.states[state + 1]
    THEN IF ~ac.fails.some \/ state \notin DOMAIN ac.fails.val THEN Panic
         ELSE iter_chase(ac, ac.fails.val[state], ch)
    ELSE state

iter_step(ac, state, ch) ==
    LET s == iter_chase(ac, state, ch)
    IN IF s = Panic THEN Panic ELSE goto_or_root(ac.states[s + 1], ch)

\* iter_yield that forgets the outputs still pending once it has yielded one.
iter_yield_drop_rest(ac, it, o, checks) ==
    LET it1 == [it EXCEPT !.output_iter.val = {}]
        kw == ac.keywords[o + 1]
        off == start_offset(kw, it.loc, checks)
    IN IF off.panic THEN [it |-> it1, ret |-> PanicRet]
       ELSE [it |-> it1, ret |-> SomeRet(<<off.val, kw>>)]

\* iter_yield that takes the next symbol off the text as it yields.
iter_yield_prefetch(ac, it, o, checks) ==
    LET it1 == [it EXCEPT !.output_iter.val = @ \ {o},
                          !.chars = IF @ < Len(it.text) THEN @ + 1 ELSE @]
        kw == ac.keywords[o + 1]
        off == start_offset(kw, it.loc, checks)
    IN IF off.panic THEN [it |-> it1, ret |-> PanicRet]
       ELSE [it |-> it1, ret |-> SomeRet(<<off.val, kw>>)]

\* The yield of output index o at self.loc.
iter_yield(ac, it, o, checks) ==
    LET it1 == [it EXCEPT !.output_iter.val = @ \ {o}]
    IN IF o + 1 \notin DOMAIN ac.keywords THEN [it |-> it1, ret |-> PanicRet]
       ELSE LET kw == ac.keywords[o + 1]
                off == start_offset(kw, it.loc, checks)
            IN IF off.panic THEN [it |-> it1, ret |-> PanicRet]
               ELSE [it |-> it1, ret |-> SomeRet(<<off.val, kw>>)]

\* MatchIter::next: every outcome [it, ret] one pull can have.  A pending
\* output is yielded (any of them: the set's iteration order); an exhausted
\* output_iter is dropped, one symbol is consumed and next calls itself.
RECURSIVE next(_, _, _)
next(ac, it, checks) ==
    IF it.output_iter.some /\ it.output_iter.val # {}
    THEN {iter_yield(ac, it, o, checks) : o \in it.output_iter.val}
    ELSE LET it1 == [it EXCEPT !.output_iter = NoneIter]
         IN IF it1.chars >= Len(it1.text) THEN {[it |-> it1, ret |-> NoneRet]}
            ELSE LET ch_idx == it1.chars
                     s == iter_step(ac, it1.state, it1.text[ch_idx + 1])
                     it2 == [it1 EXCEPT !.chars = ch_idx + 1, !.loc = ch_idx]
                 IN IF s = Panic \/ s + 1 \notin DOMAIN ac.outputs
                    THEN {[it |-> it2, ret |-> PanicRet]}
                    ELSE next(ac, [it2 EXCEPT !.state = s,
                                              !.output_iter = SomeIter(ac.outputs[s + 1])],
                              checks)

\* ------------------------------------------------- the automaton's machine

VARIABLES
    ac,               \* the AhoCorasick value
    overflow_checks,  \* the build profile: TRUE when usize overflow panics
    op,               \* the last call made
    text,             \* the argument of the last match_ call
    ret,              \* the list the last match_ call returned
    it,               \* the MatchIter in use (it borrows ac until dropped)
    last,             \* what the last pull of it returned
    yielded,          \* the matches pulled from it so far, in order
    panicked          \* a call has panicked

acvars == <<ac, overflow_checks, op, text, ret, it, last, yielded, panicked>>

\* The state of the KMP matcher and its callers.
VARIABLES
    kmp,         \* the KMP value, once KMP::new has returned one
    pc,          \* where the caller of the KMP matcher is
    k_text,      \* the symbols t of the scan in progress
    k_i,         \* how many of them the Enumerate has yielded before the current one
    k_n_matched,   \* the matched-count
    k_iters,     \* iterations of the backtracking `while` on the current symbol
    k_ret,       \* the vector match_ is filling, then returns
    k_last,      \* what the last MatchIterator::next returned
    k_yielded,   \* the offsets pulled from the MatchIterator so far
    k_panicked   \* a call has panicked

kvars == <<kmp, pc, k_text, k_i, k_n_matched, k_iters, k_ret, k_last, k_yielded, k_panicked>>

vars == <<ac, overflow_checks, op, text, ret, it, last, yielded, panicked,
          kmp, pc, k_text, k_i, k_n_matched, k_iters, k_ret, k_last, k_yielded, k_panicked>>

Keywords == SeqsUpTo(Alphabet, MaxKwLen)

Texts == SeqsUpTo(Alphabet, MaxTextLen)

Utf8Keywords == SeqsUpTo(Utf8Alphabet, MaxKwLen)

Utf8Texts == SeqsUpTo(Utf8Alphabet, MaxTextLen)

InitAC ==
    /\ ac = AhoCorasickNew
    /\ overflow_checks \in BOOLEAN
    /\ op = "new"
    /\ text = <<>>
    /\ ret = <<>>
    /\ it = NoIter
    /\ last = NoneRet
    /\ yielded = <<>>
    /\ panicked = FALSE

\* The list match_ returned and a MatchIter both borrow ac (&mut self with the
\* lifetime of the result): no other call on ac is made until they are dropped.
Borrowed == op \in {"match_", "match_iter", "next"}

\* ac.add_keyword(s), s drawn from K
AddKeywordFrom(K) ==
    /\ UNCHANGED kvars
    /\ ~panicked
    /\ ~Borrowed
    /\ Len(ac.keywords) < MaxKeywords
    /\ \E s \in K : ac' = add_keyword(ac, s)
    /\ op' = "add_keyword"
    /\ UNCHANGED <<overflow_checks, text, ret, it, last, yielded, panicked>>

\* ac.match_(t), t drawn from T: make_fails, then the scan.
MatchOn(T) ==
    /\ UNCHANGED kvars
    /\ ~panicked
    /\ ~Borrowed
    /\ \E t \in T :
         /\ ac' = make_fails(ac)
         /\ text' = t
         /\ IF make_fails_panics(ac)
            THEN ret' = <<>> /\ panicked' = TRUE
            ELSE \E r \in match_(make_fails(ac), t, overflow_checks) :
                   /\ ret' = r.ret
                   /\ panicked' = r.panic
    /\ op' = "match_"
    /\ UNCHANGED <<overflow_checks, it, last, yielded>>

\* ac.match_iter(t), t drawn from T: make_fails, then a fresh MatchIter.
MatchIterNewOn(T) ==
    /\ UNCHANGED kvars
    /\ ~panicked
    /\ ~Borrowed
    /\ \E t \in T : it' = match_iter(t)
    /\ ac' = make_fails(ac)
    /\ panicked' = make_fails_panics(ac)
    /\ op' = "match_iter"
    /\ UNCHANGED <<overflow_checks, text, ret, last, yielded>>

\* it.next()
IterNext ==
    /\ UNCHANGED kvars
    /\ ~panicked
    /\ it.alive
    /\ \E r \in next(ac, it, overflow_checks) :
         /\ it' = r.it
         /\ last' = r.ret
         /\ yielded' = IF r.ret.kind = "Some" THEN Append(yielded, r.ret.val) ELSE yielded
         /\ panicked' = (r.ret.kind = "Panic")
    /\ op' = "next"
    /\ UNCHANGED <<ac, overflow_checks, text, ret>>

\* The end of the borrow: the returned list, or the iterator (at any point of
\* its scan), is dropped.
Drop ==
    /\ UNCHANGED kvars
    /\ ~panicked
    /\ Borrowed
    /\ op' = "drop"
    /\ text' = <<>>
    /\ ret' = <<>>
    /\ it' = NoIter
    /\ last' = NoneRet
    /\ yielded' = <<>>
    /\ UNCHANGED <<ac, overflow_checks, panicked>>

\* The calls on one-byte symbols.
AddKeyword == AddKeywordFrom(Keywords)

Match == MatchOn(Texts)

MatchIterNew == MatchIterNewOn(Texts)

NextAC == AddKeyword \/ Match \/ MatchIterNew \/ IterNext \/ Drop

\* The calls on symbols of one and two bytes.
AddKeywordUtf8 == AddKeywordFrom(Utf8Keywords)

MatchUtf8 == MatchOn(Utf8Texts)

MatchIterNewUtf8 == MatchIterNewOn(Utf8Texts)

NextUtf8 == AddKeywordUtf8 \/ MatchUtf8 \/ MatchIterNewUtf8 \/ IterNext \/ Drop

\* -------------------------------------------------------------------- KMP

\* The `while` of mk_pfx left out: no backtracking on a mismatch.
pfx_backtrack_none(pat, pfx, n_matched, c) == n_matched

\* The `while` of mk_pfx: backtracks through ret[n_matched - 1].
RECURSIVE pfx_backtrack(_, _, _, _)
pfx_backtrack(pat, pfx, n_matched, c) ==
    IF n_matched > 0 /\ pat[n_matched + 1] # c
    THEN pfx_backtrack(pat, pfx, pfx[n_matched], c)
    ELSE n_matched

\* The `for i in 1..pat.len()` loop of mk_pfx.
RECURSIVE mk_pfx_loop(_, _, _, _)
mk_pfx_loop(pat, pfx, n_matched, i) ==
    IF i >= Len(pat) THEN pfx
    ELSE LET c == pat[i + 1]
             n1 == pfx_backtrack(pat, pfx, n_matched, c)
             n2 == IF pat[n1 + 1] = c THEN n1 + 1 ELSE n1
         IN mk_pfx_loop(pat, [pfx EXCEPT ![i + 1] = n2], n2, i + 1)

\* mk_pfx
mk_pfx(pat) == mk_pfx_loop(pat, [k \in 1..Len(pat) |-> 0], 0, 1)

\* No KMP value.
NoKMP == [some |-> FALSE, pat |-> <<>>, pfx |-> <<>>]

\* KMP::new without its assertion.
KMP_new_unchecked(pat) ==
    [panic |-> FALSE, kmp |-> [some |-> TRUE, pat |-> pat, pfx |-> mk_pfx(pat)]]

\* KMP::new: assert!(!pat.is_empty()), then the table.
KMP_new(pat) ==
    IF pat = <<>> THEN [panic |-> TRUE, kmp |-> NoKMP]
    ELSE [panic |-> FALSE, kmp |-> [some |-> TRUE, pat |-> pat, pfx |-> mk_pfx(pat)]]

\* The condition of the backtracking `while` of KMP::match_ on symbol c.
match_mismatch(k, n_matched, c) == n_matched > 0 /\ k.pat[n_matched + 1] # c

\* Its body: n_matched = self.pfx[n_matched].
match_backtrack(k, n_matched) ==
    IF n_matched + 1 \in DOMAIN k.pfx THEN k.pfx[n_matched + 1] ELSE Panic

\* match_advance without the reset of the matched-count after a match: it is
\* left at pat.len().
match_advance_no_reset(k, n_matched, i, c, r, checks) ==
    IF n_matched + 1 \notin DOMAIN k.pat
    THEN [panic |-> TRUE, n_matched |-> n_matched, ret |-> r]
    ELSE LET n1 == IF k.pat[n_matched + 1] = c THEN n_matched + 1 ELSE n_matched
         IN IF n1 = Len(k.pat)
            THEN [panic |-> checks /\ i + 1 - Len(k.pat) < 0,
                  n_matched |-> n1,
                  ret |-> Append(r, i + 1 - Len(k.pat))]
            ELSE [panic |-> FALSE, n_matched |-> n1, ret |-> r]

\* The rest of the `for` body of KMP::match_ on symbol c at offset i, once the
\* `while` has ended: [panic, n_matched, ret].
match_advance(k, n_matched, i, c, r, checks) ==
    IF n_matched + 1 \notin DOMAIN k.pat
    THEN [panic |-> TRUE, n_matched |-> n_matched, ret |-> r]
    ELSE LET n1 == IF k.pat[n_matched + 1] = c THEN n_matched + 1 ELSE n_matched
         IN IF n1 = Len(k.pat)
            THEN [panic |-> checks /\ i + 1 - Len(k.pat) < 0,
                  n_matched |-> k.pfx[Len(k.pat)],
                  ret |-> Append(r, i + 1 - Len(k.pat))]
            ELSE [panic |-> FALSE, n_matched |-> n1, ret |-> r]

\* The same three pieces of MatchIterator::next.
next_mismatch(k, n_matched, c) == n_matched > 0 /\ k.pat[n_matched + 1] # c

next_backtrack(k, n_matched) ==
    IF n_matched + 1 \in DOMAIN k.pfx THEN k.pfx[n_matched + 1] ELSE Panic

\* [panic, n_matched, ret]: ret is Some(offset) when the body returns.
next_advance(k, n_matched, i, c, checks) ==
    IF n_matched + 1 \notin DOMAIN k.pat
    THEN [panic |-> TRUE, n_matched |-> n_matched, ret |-> NoneRet]
    ELSE LET n1 == IF k.pat[n_matched + 1] = c THEN n_matched + 1 ELSE n_matched
         IN IF n1 = Len(k.pat)
            THEN [panic |-> checks /\ i + 1 - Len(k.pat) < 0,
                  n_matched |-> k.pfx[Len(k.pat)],
                  ret |-> SomeRet(i + 1 - Len(k.pat))]
            ELSE [panic |-> FALSE, n_matched |-> n1, ret |-> NoneRet]

\* The cap of the k_iters counter: iterations past it are not counted.
MaxIters == 4

Patterns == SeqsUpTo(KmpAlphabet, MaxPatLen)

KmpTexts == SeqsUpTo(KmpAlphabet, MaxKmpTextLen)

InitKMP ==
    /\ kmp = NoKMP
    /\ pc = "start"
    /\ k_text = <<>>
    /\ k_i = 0
    /\ k_n_matched = 0
    /\ k_iters = 0
    /\ k_ret = <<>>
    /\ k_last = NoneRet
    /\ k_yielded = <<>>
    /\ k_panicked = FALSE

\* KMP::new(pat)
KmpNew ==
    /\ UNCHANGED acvars
    /\ pc = "start"
    /\ \E pat \in Patterns :
         /\ kmp' = KMP_new(pat).kmp
         /\ k_panicked' = KMP_new(pat).panic
         /\ pc' = IF KMP_new(pat).panic THEN "panicked" ELSE "idle"
    /\ UNCHANGED <<k_text, k_i, k_n_matched, k_iters, k_ret, k_last, k_yielded>>

\* kmp.match_(t) up to the first symbol of t (or its return, when t is empty).
KmpMatch ==
    /\ UNCHANGED acvars
    /\ pc = "idle"
    /\ \E t \in KmpTexts :
         /\ k_text' = t
         /\ pc' = IF t = <<>> THEN "match_done" ELSE "match_"
    /\ k_i' = 0
    /\ k_n_matched' = 0
    /\ k_iters' = 0
    /\ k_ret' = <<>>
    /\ UNCHANGED <<kmp, k_last, k_yielded, k_panicked>>

\* One iteration of the backtracking `while` of match_.
KmpMatchBacktrack ==
    /\ UNCHANGED acvars
    /\ pc = "match_"
    /\ match_mismatch(kmp, k_n_matched, k_text[k_i + 1])
    /\ IF match_backtrack(kmp, k_n_matched) = Panic
       THEN k_panicked' = TRUE /\ pc' = "panicked" /\ UNCHANGED k_n_matched
       ELSE k_n_matched' = match_backtrack(kmp, k_n_matched) /\ UNCHANGED <<pc, k_panicked>>
    /\ k_iters' = IF k_iters < MaxIters THEN k_iters + 1 ELSE k_iters
    /\ UNCHANGED <<kmp, k_text, k_i, k_ret, k_last, k_yielded>>

\* The end of the `while`, the rest of the body and the step to the next symbol
\* (or the return of ret).
KmpMatchAdvance ==
    /\ UNCHANGED acvars
    /\ pc = "match_"
    /\ ~match_mismatch(kmp, k_n_matched, k_text[k_i + 1])
    /\ LET r == match_advance(kmp, k_n_matched, k_i, k_text[k_i + 1], k_ret, overflow_checks)
       IN /\ k_n_matched' = r.n_matched
          /\ k_ret' = r.ret
          /\ k_panicked' = r.panic
          /\ pc' = IF r.panic THEN "panicked"
                   ELSE IF k_i + 1 < Len(k_text) THEN "match_" ELSE "match_done"
    /\ k_i' = k_i + 1
    /\ k_iters' = 0
    /\ UNCHANGED <<kmp, k_text, k_last, k_yielded>>

\* kmp.match_iter(t)
KmpMatchIter ==
    /\ UNCHANGED acvars
    /\ pc = "idle"
    /\ \E t \in KmpTexts : k_text' = t
    /\ pc' = "iter"
    /\ k_i' = 0
    /\ k_n_matched' = 0
    /\ k_iters' = 0
    /\ k_last' = NoneRet
    /\ k_yielded' = <<>>
    /\ UNCHANGED <<kmp, k_ret, k_panicked>>

\* The entry of MatchIterator::next: takes the next symbol, or returns None.
KmpNext ==
    /\ UNCHANGED acvars
    /\ pc = "iter"
    /\ IF k_i < Len(k_text)
       THEN pc' = "next" /\ UNCHANGED k_last
       ELSE pc' = "iter_none" /\ k_last' = NoneRet
    /\ k_iters' = 0
    /\ UNCHANGED <<kmp, k_text, k_i, k_n_matched, k_ret, k_yielded, k_panicked>>

\* One iteration of the backtracking `while` of next.
KmpNextBacktrack ==
    /\ UNCHANGED acvars
    /\ pc = "next"
    /\ next_mismatch(kmp, k_n_matched, k_text[k_i + 1])
    /\ IF next_backtrack(kmp, k_n_matched) = Panic
       THEN k_panicked' = TRUE /\ pc' = "panicked" /\ UNCHANGED k_n_matched
       ELSE k_n_matched' = next_backtrack(kmp, k_n_matched) /\ UNCHANGED <<pc, k_panicked>>
    /\ k_iters' = IF k_iters < MaxIters THEN k_iters + 1 ELSE k_iters
    /\ UNCHANGED <<kmp, k_text, k_i, k_ret, k_last, k_yielded>>

\* The end of the `while` and the rest of the body: returns Some(offset), goes
\* on with the next symbol, or returns None when there is none.
KmpNextAdvance ==
    /\ UNCHANGED acvars
    /\ pc = "next"
    /\ ~next_mismatch(kmp, k_n_matched, k_text[k_i + 1])
    /\ LET r == next_advance(kmp, k_n_matched, k_i, k_text[k_i + 1], overflow_checks)
       IN /\ k_n_matched' = r.n_matched
          /\ k_panicked' = r.panic
          /\ k_last' = r.ret
          /\ k_yielded' = IF r.ret.kind = "Some" /\ ~r.panic
                          THEN Append(k_yielded, r.ret.val) ELSE k_yielded
          /\ pc' = IF r.panic THEN "panicked"
                   ELSE IF r.ret.kind = "Some" THEN "iter"
                   ELSE IF k_i + 1 < Len(k_text) THEN "next" ELSE "iter_none"
    /\ k_i' = k_i + 1
    /\ k_iters' = 0
    /\ UNCHANGED <<kmp, k_text, k_ret>>

\* The caller is done with the returned vector, or with the iterator (pulled
\* again after None, MatchIterator::next finds its Enumerate exhausted: KmpNext).
KmpDrop ==
    /\ UNCHANGED acvars
    /\ pc \in {"match_done", "iter", "iter_none"}
    /\ pc' = "idle"
    /\ k_text' = <<>>
    /\ k_i' = 0
    /\ k_n_matched' = 0
    /\ k_iters' = 0
    /\ k_ret' = <<>>
    /\ k_last' = NoneRet
    /\ k_yielded' = <<>>
    /\ UNCHANGED <<kmp, k_panicked>>

\* A pull after None.
KmpNextAgain ==
    /\ UNCHANGED acvars
    /\ pc = "iter_none"
    /\ pc' = "iter"
    /\ UNCHANGED <<kmp, k_text, k_i, k_n_matched, k_iters, k_ret, k_last, k_yielded, k_panicked>>

NextKMP ==
    \/ KmpNew
    \/ KmpMatch
    \/ KmpMatchBacktrack
    \/ KmpMatchAdvance
    \/ KmpMatchIter
    \/ KmpNext
    \/ KmpNextBacktrack
    \/ KmpNextAdvance
    \/ KmpDrop
    \/ KmpNextAgain

\* The patterns given to KMP::new for their prefix table alone.
PfxPatterns == SeqsUpTo(PfxAlphabet, MaxPfxLen)

\* KMP::new(pat) on a pattern of up to MaxPfxLen symbols: the assertion, then
\* mk_pfx.
KmpNewPfx ==
    /\ UNCHANGED acvars
    /\ pc = "start"
    /\ \E pat \in PfxPatterns :
         /\ kmp' = KMP_new(pat).kmp
         /\ k_panicked' = KMP_new(pat).panic
         /\ pc' = IF KMP_new(pat).panic THEN "panicked" ELSE "idle"
    /\ UNCHANGED <<k_text, k_i, k_n_matched, k_iters, k_ret, k_last, k_yielded>>

\* The KMP value is dropped; another can be made.
KmpDiscard ==
    /\ UNCHANGED acvars
    /\ pc = "idle"
    /\ kmp' = NoKMP
    /\ pc' = "start"
    /\ UNCHANGED <<k_text, k_i, k_n_matched, k_iters, k_ret, k_last, k_yielded, k_panicked>>

NextPfx == KmpNewPfx \/ KmpDiscard

\* ------------------------------------------------------- specifications

Init == InitAC /\ InitKMP

\* The Aho-Corasick automaton and its callers.
Spec == Init /\ [][NextAC]_vars

\* The same automaton fed symbols of more than one byte.
SpecUtf8 == Init /\ [][NextUtf8]_vars

\* The KMP matcher and its callers.
SpecKMP == Init /\ [][NextKMP]_vars

\* The construction of KMP values (the prefix table) on longer patterns.
SpecPfx == Init /\ [][NextPfx]_vars

\* ----------------------------------------------------------------- claims

\* Every symbol of s takes one byte.
IsAscii(s) == \A j \in DOMAIN s : s[j] < 128

\* kw occurs in t at symbol offset start.
Occurs(kw, t, start) ==
    /\ start >= 0
    /\ start + Len(kw) <= Len(t)
    /\ \A j \in 1..Len(kw) : t[start + j] = kw[j]

\* The occurrences of the keywords kws in t.
Occurrences(kws, t) ==
    {<<start, kws[k]>> : k \in DOMAIN kws, start \in 0..Len(t)}
        \cap {x \in (0..Len(t)) \X {kws[k] : k \in DOMAIN kws} : Occurs(x[2], t, x[1])}

NonEmptyAscii(kws) == \A k \in DOMAIN kws : kws[k] # <<>> /\ IsAscii(kws[k])

\* The position at which the scan reported each match of q: ch_idx, recovered
\* from the start the code computed as ch_idx - (kw.len() - 1).
EndPositions(q) == [j \in DOMAIN q |-> q[j][1] + (StrLen(q[j][2]) - 1)]

\* C1: on non-empty one-byte keywords and a one-byte text, match_ returns and
\* the pairs of its list are exactly the occurrences (start, keyword) of the
\* keywords in the text.
C1_MatchExact ==
    (op = "match_" /\ NonEmptyAscii(ac.keywords) /\ IsAscii(text))
        => /\ ~panicked
           /\ Range(ret) = Occurrences(ac.keywords, text)

\* C1 witness: a returned list with two different keywords ending at the same
\* symbol (one a suffix of the other's partial match) and overlapping matches.
C1_Witness ==
    /\ op = "match_"
    /\ ~panicked
    /\ NonEmptyAscii(ac.keywords)
    /\ \E j, k \in DOMAIN ret :
         /\ ret[j][2] # ret[k][2]
         /\ ret[j][1] + Len(ret[j][2]) = ret[k][1] + Len(ret[k][2])
    /\ \E j, k \in DOMAIN ret :
         /\ ret[j][1] < ret[k][1]
         /\ ret[k][1] < ret[j][1] + Len(ret[j][2])
         /\ ret[j][1] + Len(ret[j][2]) < ret[k][1] + Len(ret[k][2])

\* C2: once the iterator has returned None, the matches pulled from it are
\* those of every list match_ can return for the same text, with the same
\* multiplicities and the same sequence of end positions.
C2_IterEqualsEager ==
    (op = "next" /\ last.kind = "None")
        => \A r \in match_(ac, it.text, overflow_checks) :
             /\ ~r.panic
             /\ BagOf(yielded) = BagOf(r.ret)
             /\ EndPositions(yielded) = EndPositions(r.ret)

\* C2 witness: an exhausted iterator that yielded two matches ending at the same
\* position and one ending later.
C2_Witness ==
    /\ op = "next"
    /\ last.kind = "None"
    /\ Len(yielded) >= 3
    /\ \E j \in 1..(Len(yielded) - 1) :
         EndPositions(yielded)[j] = EndPositions(yielded)[j + 1]
    /\ \E j \in 1..(Len(yielded) - 1) :
         EndPositions(yielded)[j] < EndPositions(yielded)[j + 1]

\* The automaton that got the add_keyword calls kws in order, with no build.
RECURSIVE add_all(_, _)
add_all(a, kws) == IF kws = <<>> THEN a ELSE add_all(add_keyword(a, Head(kws)), Tail(kws))

Fresh == make_fails(add_all(AhoCorasickNew, ac.keywords))

\* C3: whenever the failure links are built, the links and the output sets are
\* those of the automaton that got the same add_keyword calls with no build in
\* between, and a match_ returned what that automaton can return.
C3_SameAsFresh ==
    ac.fails.some
        => /\ ac.fails = Fresh.fails
           /\ ac.outputs = Fresh.outputs
           /\ op = "match_" =>
                [panic |-> panicked, ret |-> ret] \in match_(Fresh, text, overflow_checks)

\* The start offsets of pat in t, ascending.
KmpOccurrences(pat, t) == SortedSeq({j \in 0..Len(t) : Occurs(pat, t, j)})

\* C4: the vector KMP::match_ returns is the ascending list of the start offsets
\* of the pattern in the text.
C4_KmpExact == pc = "match_done" => k_ret = KmpOccurrences(kmp.pat, k_text)

\* C5: no call panics, and a match_ on an empty text or with no keyword returns
\* an empty list.
C5_NeverFails ==
    /\ ~panicked
    /\ (op = "match_" /\ (text = <<>> \/ ac.keywords = <<>>)) => ret = <<>>
    /\ (op = "next" /\ (it.text = <<>> \/ ac.keywords = <<>>)) => last.kind = "None"

\* C6: every reported start is the end position minus the keyword's number of
\* symbols plus one: a pull that returned (start, kw) at position loc has
\* start = loc - Len(kw) + 1, and every pair of a returned list is an
\* occurrence of kw at symbol offset start.
C6_SymbolOffsets ==
    /\ (op = "next" /\ last.kind = "Some")
          => last.val[1] = it.loc - Len(last.val[2]) + 1
    /\ (op = "match_" /\ ~panicked)
          => \A j \in DOMAIN ret : Occurs(ret[j][2], text, ret[j][1])

\* C7: a KMP value has a non-empty pattern and a table of the pattern's length;
\* KMP::new on an empty pattern panics and leaves no value.
C7_NoEmptyPattern ==
    /\ kmp.some => (Len(kmp.pat) >= 1 /\ Len(kmp.pfx) = Len(kmp.pat))
    /\ pc # "start" => (kmp.some \/ k_panicked)

\* C7 witness: KMP::new was called with the empty pattern.
C7_Witness == pc = "panicked" /\ k_panicked /\ ~kmp.some /\ k_text = <<>> /\ k_i = 0

\* C8: once built, a further make_fails, and a further run of the build itself,
\* leave the failure links and every output set as they are, and a further
\* match_ of the same text returns the same matches.
C8_BuildIdempotent ==
    ac.fails.some
        => /\ make_fails(ac) = ac
           /\ build_fails(ac).fails = ac.fails
           /\ build_fails(ac).outputs = ac.outputs
           /\ (op = "match_" /\ ~panicked) =>
                \A r \in match_(make_fails(ac), text, overflow_checks) :
                    ~r.panic /\ BagOf(r.ret) = BagOf(ret)

\* C8 witness: a built automaton with a state of depth 3 whose fail state has
\* outputs of its own and a fail state other than the root, after a match_.
C8_Witness ==
    /\ op = "match_"
    /\ ~panicked
    /\ ret # <<>>
    /\ \E n \in DOMAIN ac.fails.val :
         LET f == ac.fails.val[n]
         IN /\ f # 0
            /\ ac.fails.val[f] # 0
            /\ ac.outputs[f + 1] # {}
            /\ ac.outputs[n + 1] # ac.outputs[f + 1]

\* The outputs of the current state the iterator has still to yield.
Pending == IF it.output_iter.some THEN it.output_iter.val ELSE {}

\* C9: a pull that returns a match ending at position p has consumed exactly
\* p + 1 symbols; a pull with outputs pending yields one of them and consumes
\* nothing; None is returned only with the text consumed and nothing pending,
\* and from then on every pull returns None.
C9_NoReadAhead ==
    /\ [](/\ (op = "next" /\ last.kind = "Some")
               => /\ it.chars = it.loc + 1
                  /\ last.val[1] + Len(last.val[2]) - 1 = it.loc
          /\ (op = "next" /\ last.kind = "None")
               => /\ it.chars = Len(it.text)
                  /\ Pending = {})
    /\ [][op' = "next"
            => /\ Pending # {}
                 => /\ it'.chars = it.chars
                    /\ it'.loc = it.loc
                    /\ last'.kind # "None"
                    /\ Pending' \subseteq Pending
                    /\ Cardinality(Pending') = Cardinality(Pending) - 1
               /\ (op = "next" /\ last.kind = "None") => last'.kind = "None"]_vars

\* C9 witness: a match returned before the end of the text, with another output
\* of the same state still pending.
C9_Witness ==
    /\ op = "next"
    /\ last.kind = "Some"
    /\ it.chars < Len(it.text)
    /\ Pending # {}

\* C10: every iteration of the backtracking loop, in match_ and in
\* MatchIterator::next, strictly decreases the matched-count.
C10_BacktrackDecreases ==
    [][(KmpMatchBacktrack \/ KmpNextBacktrack) => k_n_matched' < k_n_matched]_vars

\* The state that has a goto edge to the non-root state n.
ParentOf(states, n) ==
    CHOOSE p \in 0..(Len(states) - 1) : \E c \in DOMAIN states[p + 1] : states[p + 1][c] = n

\* The symbols on the goto path from the root to state n.
RECURSIVE PathOf(_, _)
PathOf(states, n) ==
    IF n = 0 THEN <<>>
    ELSE LET p == ParentOf(states, n)
             c == CHOOSE c \in DOMAIN states[p + 1] : states[p + 1][c] = n
         IN Append(PathOf(states, p), c)

\* The trie depth of state n.
Depth(states, n) == Len(PathOf(states, n))

\* path is spelled by goto edges from the root.
IsPath(states, path) == \E n \in 0..(Len(states) - 1) : PathOf(states, n) = path

\* The state a path of the trie leads to.
StateOf(states, path) == CHOOSE n \in 0..(Len(states) - 1) : PathOf(states, n) = path

\* The suffix of path that drops its first k symbols.
DropFirst(path, k) == SubSeq(path, k + 1, Len(path))

\* The longest proper suffix of path that is a path of the trie (the empty one
\* when no other is).
LongestSuffixPath(states, path) ==
    LET k == CHOOSE k \in 1..Len(path) :
                 /\ IsPath(states, DropFirst(path, k))
                 /\ \A j \in 1..(k - 1) : ~IsPath(states, DropFirst(path, j))
    IN DropFirst(path, k)

NonEmptyKeywords == \A k \in DOMAIN ac.keywords : ac.keywords[k] # <<>>

\* C11: once the links are built over non-empty keywords, the fail state of
\* every non-root state is the state of the longest proper suffix of its path
\* that is a path of the trie, the root when only the empty suffix is; every
\* state of depth 1 has the root as its fail state.
C11_FailIsLongestSuffix ==
    (ac.fails.some /\ NonEmptyKeywords)
        => /\ DOMAIN ac.fails.val = 1..(Len(ac.states) - 1)
           /\ \A n \in 1..(Len(ac.states) - 1) :
                /\ ac.fails.val[n]
                     = StateOf(ac.states, LongestSuffixPath(ac.states, PathOf(ac.states, n)))
                /\ Depth(ac.states, n) = 1 => ac.fails.val[n] = 0

\* C11 witness: built links with a state of depth 3 whose parent has a fail
\* state other than the root, and whose own fail state has depth 1: the chase
\* went through the parent's fail state down to the root.
C11_Witness ==
    /\ ac.fails.some
    /\ NonEmptyKeywords
    /\ \E n \in 1..(Len(ac.states) - 1) :
         /\ Depth(ac.states, n) = 3
         /\ ac.fails.val[ParentOf(ac.states, n)] # 0
         /\ Depth(ac.states, ac.fails.val[n]) = 1

\* The indices of the keywords whose path ends at state n.
DirectTerminals(a, n) ==
    {k \in 0..(Len(a.keywords) - 1) : StateOf(a.states, a.keywords[k + 1]) = n}

\* C12: whenever the links are built (after any run of add_keyword and match
\* calls that ends with a build), the output set of every non-root state
\* contains the output set of its fail state and the indices of the keywords
\* that end at it.
C12_OutputsInherit ==
    ac.fails.some
        => \A n \in 1..(Len(ac.states) - 1) :
             /\ ac.outputs[ac.fails.val[n] + 1] \subseteq ac.outputs[n + 1]
             /\ DirectTerminals(ac, n) \subseteq ac.outputs[n + 1]

\* Following the failure links from state n reaches the root within fuel links.
RECURSIVE ReachesRoot(_, _, _)
ReachesRoot(fails, n, fuel) ==
    IF n = 0 THEN TRUE
    ELSE IF fuel = 0 \/ n \notin DOMAIN fails THEN FALSE
    ELSE ReachesRoot(fails, fails[n], fuel - 1)

\* C13: no build fails an assertion of make_fails, whatever the keywords (a run
\* of the build from any reachable trie passes them all, and match_iter, which
\* does nothing else that can panic, never panics); in the links built every
\* fail state has a smaller depth than its source, differs from it, and the
\* chain of links from a state reaches the root within as many links as the
\* state's depth.
C13_FailDepthDecreases ==
    /\ build_run(ac).ok
    /\ ~make_fails_panics(ac)
    /\ op = "match_iter" => ~panicked
    /\ ac.fails.some
         => \A n \in 1..(Len(ac.states) - 1) :
              /\ Depth(ac.states, ac.fails.val[n]) < Depth(ac.states, n)
              /\ ac.fails.val[n] # n
              /\ ReachesRoot(ac.fails.val, n, Depth(ac.states, n))

\* C13 witness: a build made by match_iter that left a chain of two links
\* before the root.
C13_Witness ==
    /\ op = "match_iter"
    /\ ~panicked
    /\ ac.fails.some
    /\ \E n \in 1..(Len(ac.states) - 1) :
         /\ ac.fails.val[n] # 0
         /\ ac.fails.val[ac.fails.val[n]] # 0

\* The symbols a text or keyword of the run can hold.
Symbols == Alphabet \cup Utf8Alphabet

\* C14: add_keyword leaves the links stale (fails = None); match_ and
\* match_iter leave them built; and while a returned list or an iterator is in
\* use (the scan steps), the failure table is the one of the current keywords,
\* has one entry per non-root state, and no transition of the scan reads
\* outside it.
C14_NoStaleTable ==
    /\ [][/\ op' = "add_keyword" => ~ac'.fails.some
          /\ op' \in {"match_", "match_iter"} => ac'.fails.some
          /\ op' = "next" => ac' = ac]_vars
    /\ [](Borrowed
            => /\ ac.fails.some
               /\ Len(ac.fails.val) = Len(ac.states) - 1
               /\ ac.fails.val = Fresh.fails.val
               /\ ac.fails.val = build_run(ac).fails
               /\ \A n \in 0..(Len(ac.states) - 1), ch \in Symbols :
                    /\ match_chase(ac, n, ch) # Panic
                    /\ iter_chase(ac, n, ch) # Panic)

\* C14 witness: an iterator in mid-scan over links that were rebuilt after an
\* insertion that followed a build: an output set still holds an index merged
\* by the earlier build, and the links are those of the current keywords.
C14_Witness ==
    /\ op = "next"
    /\ it.chars > 0
    /\ it.chars < Len(it.text)
    /\ ac.fails.some
    /\ ac.outputs # Fresh.outputs
    /\ \E n \in DOMAIN ac.fails.val : ac.fails.val[n] # 0

\* C15: an insertion invalidates the merged output sets with the links: while
\* the links are stale every output set holds the indices of the keywords that
\* end at its state and no index merged through a failure link by an earlier
\* build, and whenever they are built the output sets are those a build from the
\* direct-terminal sets alone gives.
C15_OutputsInvalidated ==
    /\ ~ac.fails.some
         => \A n \in 0..(Len(ac.states) - 1) : ac.outputs[n + 1] = DirectTerminals(ac, n)
    /\ ac.fails.some => ac.outputs = Fresh.outputs

\* C16: add_keyword does not take an empty keyword in silence: the output set
\* of the root holds no keyword index, and an empty keyword is in the keyword
\* list only if the call that got it panicked.
C16_EmptyKeywordRejected ==
    /\ ac.outputs[1] = {}
    /\ (\E k \in DOMAIN ac.keywords : ac.keywords[k] = <<>>) => panicked

\* The first k symbols of p[0..=i] are also its last k symbols.
IsBorder(p, i, k) == SubSeq(p, 1, k) = SubSeq(p, i + 2 - k, i + 1)

\* The length of the longest proper prefix of p[0..=i] that is also a suffix
\* of it.
LongestBorder(p, i) ==
    CHOOSE k \in 0..i : IsBorder(p, i, k) /\ \A j \in (k + 1)..i : ~IsBorder(p, i, j)

\* C17: the table of a KMP value has the length of its pattern and its entry i
\* is the length of the longest proper prefix of pattern[0..=i] that is also a
\* suffix of it, so entry 0 is 0 and entry i is at most i; the table of
\* "ababaca" is [0,0,1,2,3,0,1].
C17_PfxLongestBorder ==
    /\ kmp.some
         => /\ Len(kmp.pfx) = Len(kmp.pat)
            /\ \A i \in 0..(Len(kmp.pat) - 1) :
                 /\ kmp.pfx[i + 1] = LongestBorder(kmp.pat, i)
                 /\ kmp.pfx[i + 1] <= i
            /\ kmp.pfx[1] = 0
    /\ kmp.pat = <<97, 98, 97, 98, 97, 99, 97>> => kmp.pfx = <<0, 0, 1, 2, 3, 0, 1>>

\* C17 witness: the KMP value of "ababaca" with its table.
C17_Witness ==
    /\ kmp.some
    /\ kmp.pat = <<97, 98, 97, 98, 97, 99, 97>>
    /\ kmp.pfx = <<0, 0, 1, 2, 3, 0, 1>>

\* The goto edges <<source, symbol, target>> of a trie.
Edges(states) ==
    UNION {{<<p, c, states[p + 1][c]>> : c \in DOMAIN states[p + 1]} :
               p \in 0..(Len(states) - 1)}

\* The goto edges that lead to state m.
Incoming(states, m) == {e \in Edges(states) : e[3] = m}

\* The non-empty prefixes of the keywords kws.
NonEmptyPrefixes(kws) ==
    UNION {{SubSeq(kws[k], 1, j) : j \in 1..Len(kws[k])} : k \in DOMAIN kws}

\* C18: states and outputs have the same length n; every goto edge leads to a
\* state in 1..n-1; every non-root state has exactly one incoming edge, from a
\* state of smaller id, and state 0 has none; n - 1 is the number of distinct
\* non-empty prefixes of the keywords.  An add_keyword keeps every edge there
\* was, and the states it creates get the ids n, n + 1, ... in the order of
\* their creation: the first hangs off an older state, each further one off
\* the one created just before it.
C18_TrieSequentialIds ==
    /\ [](LET n == Len(ac.states)
          IN /\ Len(ac.outputs) = n
             /\ \A e \in Edges(ac.states) : e[3] \in 1..(n - 1) /\ e[1] < e[3]
             /\ \A m \in 1..(n - 1) : Cardinality(Incoming(ac.states, m)) = 1
             /\ Incoming(ac.states, 0) = {}
             /\ n - 1 = Cardinality(NonEmptyPrefixes(ac.keywords)))
    /\ [][LET n == Len(ac.states)
              n1 == Len(ac'.states)
          IN /\ n1 >= n
             /\ Edges(ac.states) \subseteq Edges(ac'.states)
             /\ op' # "add_keyword" => ac'.states = ac.states
             /\ \A m \in n..(n1 - 1) :
                  \E e \in Incoming(ac'.states, m) :
                      IF m = n THEN e[1] < n ELSE e[1] = m - 1]_vars

\* C18 witness: after three add_keyword calls, a trie in which keywords share
\* a prefix (fewer states than symbols inserted), a state has two outgoing
\* edges, and the last state created hangs off the one created before it.
C18_Witness ==
    /\ op = "add_keyword"
    /\ Len(ac.keywords) = 3
    /\ Len(ac.states) - 1
         < Len(ac.keywords[1]) + Len(ac.keywords[2]) + Len(ac.keywords[3])
    /\ \E p \in 1..(Len(ac.states) - 1) : Cardinality(DOMAIN ac.states[p + 1]) = 2
    /\ \E c \in Alphabet :
         /\ c \in DOMAIN ac.states[Len(ac.states) - 1]
         /\ ac.states[Len(ac.states) - 1][c] = Len(ac.states) - 1

\* The number of entries of the list q that equal x.
Count(q, x) == Cardinality({j \in DOMAIN q : q[j] = x})

\* The indices under which the text kw is in the keyword list kws.
IndicesOf(kws, kw) == {k \in 0..(Len(kws) - 1) : kws[k + 1] = kw}

\* Every occurrence in t of a keyword text inserted more than once is in the
\* list q once per index of that text.
ReportedPerIndex(q, t) ==
    \A k \in DOMAIN ac.keywords :
        LET kw == ac.keywords[k]
        IN Cardinality(IndicesOf(ac.keywords, kw)) >= 2
              => \A start \in 0..Len(t) :
                    Occurs(kw, t, start)
                       => Count(q, <<start, kw>>) = Cardinality(IndicesOf(ac.keywords, kw))

\* Some text is in the keyword list more than once.
HasDuplicate ==
    \E k \in DOMAIN ac.keywords :
        Cardinality(IndicesOf(ac.keywords, ac.keywords[k])) >= 2

\* C19: an add_keyword of a text that is a keyword already creates no state and
\* no edge and puts one more index, next to the earlier ones, in the output set
\* of the state the text ends at; from then on (the keywords being non-empty)
\* match_ returns, and a match_iter pulled to its end yields, every occurrence
\* of that text once per index, and neither panics.
C19_DuplicateReportedTwice ==
    /\ [][(/\ op' = "add_keyword"
            /\ ac'.keywords[Len(ac'.keywords)] \in Range(ac.keywords))
             => LET kw == ac'.keywords[Len(ac'.keywords)]
                    n == StateOf(ac.states, kw)
                IN /\ ac'.states = ac.states
                   /\ Len(ac'.outputs) = Len(ac.outputs)
                   /\ Len(ac'.keywords) = Len(ac.keywords) + 1
                   /\ ac'.outputs[n + 1] = ac.outputs[n + 1] \cup {Len(ac.keywords)}
                   /\ IndicesOf(ac'.keywords, kw) \subseteq ac'.outputs[n + 1]
                   /\ Cardinality(IndicesOf(ac'.keywords, kw)) >= 2]_vars
    /\ []((HasDuplicate /\ NonEmptyKeywords)
            => /\ op = "match_" => (~panicked /\ ReportedPerIndex(ret, text))
               /\ op = "next" => last.kind # "Panic"
               /\ (op = "next" /\ last.kind = "None")
                    => ReportedPerIndex(yielded, it.text))

\* C20: at every symbol step and at every iteration of the backtracking loop
\* of KMP::match_ and MatchIterator::next the matched-count is in 0..L-1 (and
\* at most the number of symbols consumed), so pat[n_matched] and the prefix
\* table are read within bounds; no call on a KMP value panics, and every
\* reported start i + 1 - L is a non-negative offset with start + L within the
\* symbols consumed.
C20_KmpInBounds ==
    /\ k_panicked => ~kmp.some
    /\ pc \in {"match_", "next"}
         => /\ kmp.some
            /\ k_i < Len(k_text)
            /\ k_n_matched \in 0..(Len(kmp.pat) - 1)
            /\ k_n_matched <= k_i
            /\ k_n_matched + 1 \in DOMAIN kmp.pat
            /\ k_n_matched + 1 \in DOMAIN kmp.pfx
            /\ match_backtrack(kmp, k_n_matched) # Panic
            /\ next_backtrack(kmp, k_n_matched) # Panic
    /\ kmp.some
         => /\ \A j \in DOMAIN k_ret : k_ret[j] >= 0 /\ k_ret[j] + Len(kmp.pat) <= k_i
            /\ \A j \in DOMAIN k_yielded :
                 k_yielded[j] >= 0 /\ k_yielded[j] + Len(kmp.pat) <= k_i

\* C20 witness: match_ inside its backtracking loop with a match already
\* reported and a matched-count above 0.
C20_Witness ==
    /\ pc = "match_"
    /\ k_iters >= 1
    /\ k_ret # <<>>
    /\ k_n_matched > 0

====
